---- MODULE Spec2Model ----
(***************************************************************************)
(* Model of crates/libpostal-rust/src/address.rs: the typed Address built  *)
(* from libpostal's HashMap<String, String>, its value types (Postcode,    *)
(* State, UsStateCode, Country) and the single-line rendering.             *)
(*                                                                         *)
(* A Rust String is modelled as a sequence of characters.  A character is  *)
(* named by a TLA+ string; the alphabet holds the ASCII letters, two       *)
(* digits, a few ASCII punctuation characters and a handful of non-ASCII   *)
(* characters, each with its UTF-8 width and its Unicode upper-case        *)
(* mapping, because String::len counts bytes and str::to_uppercase applies *)
(* the Unicode mappings.                                                   *)
(***************************************************************************)
EXTENDS Integers, Sequences, FiniteSets, TLC

VARIABLES parsed, pending, addr, pc, line, sym, input, result, again

vars == <<parsed, pending, addr, pc, line, sym, input, result, again>>

(***************************************************************************)
(* Bounds of the model.                                                    *)
(***************************************************************************)
\* entries of a raw mapping
MaxEntries == 2
\* characters of a text handed to UsStateCode::from_str / the state classifier
MaxStateLen == 2
\* characters of a text handed to Country::from_string
MaxCountryLen == 3
\* characters of a text handed to Postcode::new
MaxPostcodeLen == 3

(***************************************************************************)
(* Characters.                                                             *)
(***************************************************************************)
Lower == <<"a", "b", "c", "d", "e", "f", "g", "h", "i", "j", "k", "l", "m",
           "n", "o", "p", "q", "r", "s", "t", "u", "v", "w", "x", "y", "z">>

Upper == <<"A", "B", "C", "D", "E", "F", "G", "H", "I", "J", "K", "L", "M",
           "N", "O", "P", "Q", "R", "S", "T", "U", "V", "W", "X", "Y", "Z">>

AsciiLower == {Lower[i] : i \in DOMAIN Lower}

AsciiUpper == {Upper[i] : i \in DOMAIN Upper}

AsciiDigit == {"0", "7"}

\* space, hyphen, the "#" that to_single_line writes
AsciiPunct == {" ", "-", "#"}

Ascii == AsciiLower \cup AsciiUpper \cup AsciiDigit \cup AsciiPunct

\* U+00A0 NO-BREAK SPACE, U+00E9 and U+00C9 (e acute, small and capital),
\* U+0131 LATIN SMALL LETTER DOTLESS I, U+017F LATIN SMALL LETTER LONG S,
\* U+00DF LATIN SMALL LETTER SHARP S, U+20AC EURO SIGN
NonAscii == {"nbsp", "e_acute", "E_ACUTE", "dotless_i", "long_s", "sharp_s", "euro"}

Char == Ascii \cup NonAscii

\* char::len_utf8: the bytes of the character in a String
len_utf8(c) ==
    IF c \in Ascii THEN 1 ELSE IF c = "euro" THEN 3 ELSE 2

\* char::to_uppercase: the Unicode upper-case mapping, a sequence of characters
char_to_uppercase(c) ==
    IF c \in AsciiLower
    THEN <<Upper[CHOOSE i \in DOMAIN Lower : Lower[i] = c]>>
    ELSE CASE c = "e_acute" -> <<"E_ACUTE">>
           [] c = "dotless_i" -> <<"I">>
           [] c = "long_s" -> <<"S">>
           [] c = "sharp_s" -> <<"S", "S">>
           [] OTHER -> <<c>>

is_ascii_uppercase(c) == c \in AsciiUpper

is_ascii_digit(c) == c \in AsciiDigit

is_ascii_alphabetic(c) == c \in AsciiLower \cup AsciiUpper

\* char::is_whitespace (the White_Space property), as str::trim uses it
is_whitespace(c) == c \in {" ", "nbsp"}

(***************************************************************************)
(* Strings.                                                                *)
(***************************************************************************)
RECURSIVE str_len(_)
\* String::len: the length in bytes
str_len(s) ==
    IF s = <<>> THEN 0 ELSE len_utf8(Head(s)) + str_len(Tail(s))

RECURSIVE to_uppercase(_)
\* str::to_uppercase
to_uppercase(s) ==
    IF s = <<>> THEN <<>> ELSE char_to_uppercase(Head(s)) \o to_uppercase(Tail(s))

\* s.chars().all(p), for the three predicates the source uses
all_ascii_alphabetic(s) == \A i \in DOMAIN s : is_ascii_alphabetic(s[i])

all_ascii_upper_or_digit(s) ==
    \A i \in DOMAIN s : is_ascii_uppercase(s[i]) \/ is_ascii_digit(s[i])

RECURSIVE trim_start(_)
trim_start(s) ==
    IF s # <<>> /\ is_whitespace(Head(s)) THEN trim_start(Tail(s)) ELSE s

RECURSIVE trim_end(_)
trim_end(s) ==
    IF s # <<>> /\ is_whitespace(s[Len(s)])
    THEN trim_end(SubSeq(s, 1, Len(s) - 1))
    ELSE s

\* str::trim
trim(s) == trim_end(trim_start(s))

\* the strings of at most n characters over the alphabet A
StringsUpTo(A, n) == UNION {[1..k -> A] : k \in 0..n}

(***************************************************************************)
(* Option<T>.                                                              *)
(***************************************************************************)
None == [tag |-> "None"]

Some(x) == [tag |-> "Some", val |-> x]

(***************************************************************************)
(* Postcode.                                                               *)
(***************************************************************************)
\* the tuple struct Postcode(String)
Postcode(code) == [tag |-> "Postcode", s |-> code]

\* a Postcode_new that keeps the trimmed text
Postcode_new_trimmed(code) ==
    IF trim(code) = <<>> THEN None ELSE Some(Postcode(trim(code)))

Postcode_new(code) ==
    IF trim(code) = <<>> THEN None ELSE Some(Postcode(code))

Postcode_as_str(p) == p.s

\* impl Display for Postcode
Postcode_fmt(p) == p.s

(***************************************************************************)
(* UsStateCode.                                                            *)
(***************************************************************************)
\* the 51 variants of the enum
UsStateCode == {
    "AL", "AK", "AZ", "AR", "CA", "CO", "CT", "DE", "FL", "GA", "HI", "ID", "IL",
    "IN", "IA", "KS", "KY", "LA", "ME", "MD", "MA", "MI", "MN", "MS", "MO", "MT",
    "NE", "NV", "NH", "NJ", "NM", "NY", "NC", "ND", "OH", "OK", "OR", "PA", "RI",
    "SC", "SD", "TN", "TX", "UT", "VT", "VA", "WA", "WV", "WI", "WY", "DC"}

\* the arms of the match in UsStateCode::as_str: <<variant, text>>
as_str_arms == <<
    <<"AL", <<"A", "L">>>>, <<"AK", <<"A", "K">>>>, <<"AZ", <<"A", "Z">>>>,
    <<"AR", <<"A", "R">>>>, <<"CA", <<"C", "A">>>>, <<"CO", <<"C", "O">>>>,
    <<"CT", <<"C", "T">>>>, <<"DE", <<"D", "E">>>>, <<"FL", <<"F", "L">>>>,
    <<"GA", <<"G", "A">>>>, <<"HI", <<"H", "I">>>>, <<"ID", <<"I", "D">>>>,
    <<"IL", <<"I", "L">>>>, <<"IN", <<"I", "N">>>>, <<"IA", <<"I", "A">>>>,
    <<"KS", <<"K", "S">>>>, <<"KY", <<"K", "Y">>>>, <<"LA", <<"L", "A">>>>,
    <<"ME", <<"M", "E">>>>, <<"MD", <<"M", "D">>>>, <<"MA", <<"M", "A">>>>,
    <<"MI", <<"M", "I">>>>, <<"MN", <<"M", "N">>>>, <<"MS", <<"M", "S">>>>,
    <<"MO", <<"M", "O">>>>, <<"MT", <<"M", "T">>>>, <<"NE", <<"N", "E">>>>,
    <<"NV", <<"N", "V">>>>, <<"NH", <<"N", "H">>>>, <<"NJ", <<"N", "J">>>>,
    <<"NM", <<"N", "M">>>>, <<"NY", <<"N", "Y">>>>, <<"NC", <<"N", "C">>>>,
    <<"ND", <<"N", "D">>>>, <<"OH", <<"O", "H">>>>, <<"OK", <<"O", "K">>>>,
    <<"OR", <<"O", "R">>>>, <<"PA", <<"P", "A">>>>, <<"RI", <<"R", "I">>>>,
    <<"SC", <<"S", "C">>>>, <<"SD", <<"S", "D">>>>, <<"TN", <<"T", "N">>>>,
    <<"TX", <<"T", "X">>>>, <<"UT", <<"U", "T">>>>, <<"VT", <<"V", "T">>>>,
    <<"VA", <<"V", "A">>>>, <<"WA", <<"W", "A">>>>, <<"WV", <<"W", "V">>>>,
    <<"WI", <<"W", "I">>>>, <<"WY", <<"W", "Y">>>>, <<"DC", <<"D", "C">>>>>>

\* the arms of the match in UsStateCode::from_str: <<text, variant>>
from_str_arms == <<
    <<<<"A", "L">>, "AL">>, <<<<"A", "K">>, "AK">>, <<<<"A", "Z">>, "AZ">>,
    <<<<"A", "R">>, "AR">>, <<<<"C", "A">>, "CA">>, <<<<"C", "O">>, "CO">>,
    <<<<"C", "T">>, "CT">>, <<<<"D", "E">>, "DE">>, <<<<"F", "L">>, "FL">>,
    <<<<"G", "A">>, "GA">>, <<<<"H", "I">>, "HI">>, <<<<"I", "D">>, "ID">>,
    <<<<"I", "L">>, "IL">>, <<<<"I", "N">>, "IN">>, <<<<"I", "A">>, "IA">>,
    <<<<"K", "S">>, "KS">>, <<<<"K", "Y">>, "KY">>, <<<<"L", "A">>, "LA">>,
    <<<<"M", "E">>, "ME">>, <<<<"M", "D">>, "MD">>, <<<<"M", "A">>, "MA">>,
    <<<<"M", "I">>, "MI">>, <<<<"M", "N">>, "MN">>, <<<<"M", "S">>, "MS">>,
    <<<<"M", "O">>, "MO">>, <<<<"M", "T">>, "MT">>, <<<<"N", "E">>, "NE">>,
    <<<<"N", "V">>, "NV">>, <<<<"N", "H">>, "NH">>, <<<<"N", "J">>, "NJ">>,
    <<<<"N", "M">>, "NM">>, <<<<"N", "Y">>, "NY">>, <<<<"N", "C">>, "NC">>,
    <<<<"N", "D">>, "ND">>, <<<<"O", "H">>, "OH">>, <<<<"O", "K">>, "OK">>,
    <<<<"O", "R">>, "OR">>, <<<<"P", "A">>, "PA">>, <<<<"R", "I">>, "RI">>,
    <<<<"S", "C">>, "SC">>, <<<<"S", "D">>, "SD">>, <<<<"T", "N">>, "TN">>,
    <<<<"T", "X">>, "TX">>, <<<<"U", "T">>, "UT">>, <<<<"V", "T">>, "VT">>,
    <<<<"V", "A">>, "VA">>, <<<<"W", "A">>, "WA">>, <<<<"W", "V">>, "WV">>,
    <<<<"W", "I">>, "WI">>, <<<<"W", "Y">>, "WY">>, <<<<"D", "C">>, "DC">>>>

UsStateCode_as_str(code) ==
    as_str_arms[CHOOSE i \in DOMAIN as_str_arms : as_str_arms[i][1] = code][2]

Ok(x) == [tag |-> "Ok", val |-> x]

\* Err(())
Err == [tag |-> "Err"]

\* a from_str that matches the text as it is, without s.to_uppercase()
UsStateCode_from_str_exact(s) ==
    LET hits == {i \in DOMAIN from_str_arms : from_str_arms[i][1] = s}
    IN  IF hits = {}
        THEN Err
        ELSE Ok(from_str_arms[CHOOSE i \in hits : \A j \in hits : i <= j][2])

\* the first arm that matches the upper-cased text, Err(()) when none does
UsStateCode_from_str(s) ==
    LET up == to_uppercase(s)
        hits == {i \in DOMAIN from_str_arms : from_str_arms[i][1] = up}
    IN  IF hits = {}
        THEN Err
        ELSE Ok(from_str_arms[CHOOSE i \in hits : \A j \in hits : i <= j][2])

(***************************************************************************)
(* State.                                                                  *)
(***************************************************************************)
State_UsStateCode(code) == [tag |-> "UsStateCode", code |-> code]

State_CanadianProvince(s) == [tag |-> "CanadianProvince", s |-> s]

State_Other(s) == [tag |-> "Other", s |-> s]

State_as_str(st) ==
    IF st.tag = "UsStateCode" THEN UsStateCode_as_str(st.code) ELSE st.s

\* impl Display for State
State_fmt(st) == State_as_str(st)

\* a "state" arm that does not recover from Err(()): the error is what it yields
State_from_value_unwrap(value) ==
    LET r == UsStateCode_from_str(value)
    IN  IF r.tag = "Ok" THEN State_UsStateCode(r.val) ELSE r

\* the value of the "state" arm of from_parsed
State_from_value(value) ==
    LET r == UsStateCode_from_str(value)
    IN  IF r.tag = "Ok"
        THEN State_UsStateCode(r.val)
        ELSE IF str_len(value) = 2 /\ all_ascii_alphabetic(value)
             THEN State_CanadianProvince(to_uppercase(value))
             ELSE State_Other(value)

(***************************************************************************)
(* Country.                                                                *)
(***************************************************************************)
Country_Iso2(s) == [tag |-> "Iso2", s |-> s]

Country_Iso3(s) == [tag |-> "Iso3", s |-> s]

Country_Name(s) == [tag |-> "Name", s |-> s]

Country_as_str(c) == c.s

\* impl Display for Country
Country_fmt(c) == Country_as_str(c)

Country_from_string(s) ==
    CASE str_len(s) = 2 -> Country_Iso2(to_uppercase(s))
      [] str_len(s) = 3 ->
            IF all_ascii_upper_or_digit(s)
            THEN Country_Iso3(to_uppercase(s))
            ELSE Country_Name(s)
      [] OTHER -> Country_Name(s)

(***************************************************************************)
(* Address.                                                                *)
(***************************************************************************)
\* the fields of the struct that hold an Option<String>
PlainFields == {
    "house_number", "road", "unit", "house", "level", "staircase", "entrance",
    "po_box", "suburb", "city", "city_district", "island", "state_district",
    "country_region", "world_region", "neighbourhood", "category", "near"}

\* the fields that hold an Option<Postcode>, Option<State>, Option<Country>
TypedFields == {"postcode", "state", "country"}

Fields == PlainFields \cup TypedFields

\* Address::default(): every field None
Address_default == [f \in Fields |-> None]

\* a match whose string patterns accept any key that starts with them
key_matches_prefix(key, pattern) ==
    \/ key = pattern
    \/ <<pattern, key>> \in {<<"state", "state_district">>,
                             <<"city", "city_district">>,
                             <<"country", "country_region">>}

\* a match that compares the key without regard to letter case
key_matches_ignore_case(key, pattern) ==
    (IF key = "City" THEN "city" ELSE key) = pattern

\* a string pattern of the match on key.as_str(): exact equality
key_matches(key, pattern) == key = pattern

\* an arm that trims the text it stores
some_text_trimmed(value) == Some(trim(value))

\* the right-hand side of the arms of the Option<String> fields: Some(value)
some_text(value) == Some(value)

\* one iteration of the for loop: the match on key.as_str(), first arm first
Dispatch(a, key, value) ==
    CASE key_matches(key, "house_number") ->
            [a EXCEPT !["house_number"] = some_text(value)]
      [] key_matches(key, "road") ->
            [a EXCEPT !["road"] = some_text(value)]
      [] key_matches(key, "unit") ->
            [a EXCEPT !["unit"] = some_text(value)]
      [] key_matches(key, "house") ->
            [a EXCEPT !["house"] = some_text(value)]
      [] key_matches(key, "level") ->
            [a EXCEPT !["level"] = some_text(value)]
      [] key_matches(key, "staircase") ->
            [a EXCEPT !["staircase"] = some_text(value)]
      [] key_matches(key, "entrance") ->
            [a EXCEPT !["entrance"] = some_text(value)]
      [] key_matches(key, "po_box") ->
            [a EXCEPT !["po_box"] = some_text(value)]
      [] key_matches(key, "postcode") ->
            [a EXCEPT !["postcode"] = Postcode_new(value)]
      [] key_matches(key, "suburb") ->
            [a EXCEPT !["suburb"] = some_text(value)]
      [] key_matches(key, "city") ->
            [a EXCEPT !["city"] = some_text(value)]
      [] key_matches(key, "city_district") ->
            [a EXCEPT !["city_district"] = some_text(value)]
      [] key_matches(key, "island") ->
            [a EXCEPT !["island"] = some_text(value)]
      [] key_matches(key, "state") ->
            [a EXCEPT !["state"] = Some(State_from_value(value))]
      [] key_matches(key, "state_district") ->
            [a EXCEPT !["state_district"] = some_text(value)]
      [] key_matches(key, "country") ->
            [a EXCEPT !["country"] = Some(Country_from_string(value))]
      [] key_matches(key, "country_region") ->
            [a EXCEPT !["country_region"] = some_text(value)]
      [] key_matches(key, "world_region") ->
            [a EXCEPT !["world_region"] = some_text(value)]
      [] key_matches(key, "neighbourhood") ->
            [a EXCEPT !["neighbourhood"] = some_text(value)]
      [] key_matches(key, "category") ->
            [a EXCEPT !["category"] = some_text(value)]
      [] key_matches(key, "near") ->
            [a EXCEPT !["near"] = some_text(value)]
      [] OTHER -> a

RECURSIVE join(_, _)
\* [String]::join(sep)
join(parts, sep) ==
    IF parts = <<>> THEN <<>>
    ELSE IF Len(parts) = 1 THEN parts[1]
    ELSE parts[1] \o sep \o join(Tail(parts), sep)

\* pushes that take the postcode before the state
single_line_parts_swapped(a) ==
    (IF a["house_number"] # None THEN <<a["house_number"].val>> ELSE <<>>)
    \o (IF a["road"] # None THEN <<a["road"].val>> ELSE <<>>)
    \o (IF a["unit"] # None THEN <<(<<"#">> \o a["unit"].val)>> ELSE <<>>)
    \o (IF a["city"] # None THEN <<a["city"].val>> ELSE <<>>)
    \o (IF a["postcode"] # None THEN <<Postcode_fmt(a["postcode"].val)>> ELSE <<>>)
    \o (IF a["state"] # None THEN <<State_fmt(a["state"].val)>> ELSE <<>>)
    \o (IF a["country"] # None THEN <<Country_fmt(a["country"].val)>> ELSE <<>>)

\* the pushes of to_single_line, in the order of the source
single_line_parts(a) ==
    (IF a["house_number"] # None THEN <<a["house_number"].val>> ELSE <<>>)
    \o (IF a["road"] # None THEN <<a["road"].val>> ELSE <<>>)
    \o (IF a["unit"] # None THEN <<(<<"#">> \o a["unit"].val)>> ELSE <<>>)
    \o (IF a["city"] # None THEN <<a["city"].val>> ELSE <<>>)
    \o (IF a["state"] # None THEN <<State_fmt(a["state"].val)>> ELSE <<>>)
    \o (IF a["postcode"] # None THEN <<Postcode_fmt(a["postcode"].val)>> ELSE <<>>)
    \o (IF a["country"] # None THEN <<Country_fmt(a["country"].val)>> ELSE <<>>)

to_single_line(a) == join(single_line_parts(a), <<" ">>)

(***************************************************************************)
(* The raw mappings the model converts.                                    *)
(***************************************************************************)
\* the keys the match of from_parsed names
Vocabulary == Fields

\* keys outside the vocabulary: a case variant of one, and a foreign name
UnknownKeys == {"City", "zip"}

Keys == Vocabulary \cup UnknownKeys

\* the texts a mapping holds: empty, with inner and outer blanks, two letters
\* in lower case (a US code, another), three capitals
RawValues == {
    <<>>, <<" ", "a", " ", "B">>, <<"n", "y">>, <<"q", "c">>, <<"U", "S", "A">>}

RECURSIVE KeySets(_)
\* the sets of at most n distinct keys
KeySets(n) ==
    IF n = 0 THEN {{}}
    ELSE LET S == KeySets(n - 1)
         IN  S \cup {D \cup {k} : D \in S, k \in Keys}

\* the HashMaps of at most MaxEntries entries
RawMappings == UNION {[D -> RawValues] : D \in KeySets(MaxEntries)}

\* an empty HashMap
EmptyMapping == [k \in {} |-> <<>>]

(***************************************************************************)
(* Address::from_parsed followed by Address::to_single_line.               *)
(***************************************************************************)
\* no call of the value types' functions is in progress
Idle ==
    /\ sym = None
    /\ input = <<>>
    /\ result = None
    /\ again = None

\* let mut addr = Address::default(), the HashMap not yet iterated
Enter(m) ==
    /\ parsed = m
    /\ pending = DOMAIN m
    /\ addr = Address_default
    /\ pc = "iter"
    /\ line = None
    /\ Idle

Init == \E m \in RawMappings : Enter(m)

\* the for loop takes the next entry, in the HashMap's (arbitrary) order
Step ==
    /\ pc = "iter"
    /\ \E key \in pending :
        /\ addr' = Dispatch(addr, key, parsed[key])
        /\ pending' = pending \ {key}
    /\ UNCHANGED <<parsed, pc, line, sym, input, result, again>>

\* the loop is over: from_parsed returns addr
Return ==
    /\ pc = "iter"
    /\ pending = {}
    /\ pc' = "done"
    /\ UNCHANGED <<parsed, pending, addr, line, sym, input, result, again>>

\* the caller renders the Address it got
ToSingleLine ==
    /\ pc = "done"
    /\ line' = Some(to_single_line(addr))
    /\ pc' = "rendered"
    /\ UNCHANGED <<parsed, pending, addr, sym, input, result, again>>

Next == Step \/ Return \/ ToSingleLine

Spec == Init /\ [][Next]_vars

\* the texts of the mappings whose conversion is followed to its end: a US
\* code and two letters that UsStateCode::from_str rejects
LiveValues == {<<"n", "y">>, <<"q", "c">>}

LiveMappings == UNION {[D -> LiveValues] : D \in KeySets(MaxEntries)}

InitLive == \E m \in LiveMappings : Enter(m)

\* the calls are synchronous: a call that can go on does
SpecLive == InitLive /\ [][Next]_vars /\ WF_vars(Next)

(***************************************************************************)
(* Address::to_single_line on an Address the caller built field by field,  *)
(* as test_single_line_formatting does.                                    *)
(***************************************************************************)
RenderAddresses ==
    {[f \in Fields |->
        CASE f = "house_number" -> r.house_number
          [] f = "road" -> r.road
          [] f = "unit" -> r.unit
          [] f = "city" -> r.city
          [] f = "state" -> r.state
          [] f = "postcode" -> r.postcode
          [] f = "country" -> r.country
          [] f = "suburb" -> r.suburb
          [] OTHER -> None] :
     r \in [house_number : {None, Some(<<>>), Some(<<"7">>)},
            road : {None, Some(<<"a", " ", "B">>)},
            unit : {None, Some(<<"7", "B">>)},
            city : {None, Some(<<"N", "Y", "C">>)},
            state : {None, Some(State_UsStateCode("IL")),
                     Some(State_CanadianProvince(<<"Q", "C">>)),
                     Some(State_Other(<<"o", "n", "t">>))},
            postcode : {None} \cup {Postcode_new(<<"7", "-", "0">>)},
            country : {None, Some(Country_Iso2(<<"U", "S">>)),
                       Some(Country_Iso3(<<"U", "S", "A">>)),
                       Some(Country_Name(<<"u", "s", "a", "7">>))},
            suburb : {None, Some(<<"s", "u", "b">>)}]}

InitRender ==
    /\ parsed = EmptyMapping
    /\ pending = {}
    /\ addr \in RenderAddresses
    /\ pc = "done"
    /\ line = None
    /\ Idle

NextRender == ToSingleLine

SpecRender == InitRender /\ [][NextRender]_vars

(***************************************************************************)
(* from_parsed on a mapping with the single key "state".                   *)
(***************************************************************************)
StateChars == AsciiLower \cup AsciiUpper \cup {"7", " ", "e_acute", "dotless_i", "long_s"}

StateInputs ==
    StringsUpTo(StateChars, MaxStateLen)
    \cup {<<"n", "y", "c">>, <<" ", "n", "y">>, <<"n", "y", " ">>,
          <<"O", "n", "t", "a", "r", "i", "o">>}

InitState == \E v \in StateInputs : Enter([k \in {"state"} |-> v])

SpecState == InitState /\ [][Next]_vars

(***************************************************************************)
(* UsStateCode::as_str and UsStateCode::from_str, called directly.         *)
(***************************************************************************)
\* no conversion of a mapping is in progress
NoConversion ==
    /\ parsed = EmptyMapping
    /\ pending = {}
    /\ addr = Address_default
    /\ line = None

InitCodec ==
    /\ NoConversion
    /\ pc = "codec"
    /\ Idle

\* the caller encodes a symbol
Encode ==
    /\ pc = "codec"
    /\ \E code \in UsStateCode :
        /\ sym' = Some(code)
        /\ input' = UsStateCode_as_str(code)
    /\ pc' = "text"
    /\ UNCHANGED <<parsed, pending, addr, line, result, again>>

\* the caller has a text of its own
Supply ==
    /\ pc = "codec"
    /\ \E s \in StateInputs : input' = s
    /\ pc' = "text"
    /\ UNCHANGED <<parsed, pending, addr, line, sym, result, again>>

\* the other letter case of an ASCII letter
swap_case(c) ==
    IF c \in AsciiLower THEN Upper[CHOOSE i \in DOMAIN Lower : Lower[i] = c]
    ELSE IF c \in AsciiUpper THEN Lower[CHOOSE i \in DOMAIN Upper : Upper[i] = c]
    ELSE c

\* the caller changes the letter case of one character of an encoded text,
\* as the tests do with "ny" and "ca"
Recase ==
    /\ pc = "text"
    /\ sym # None
    /\ \E i \in DOMAIN input : input' = [input EXCEPT ![i] = swap_case(input[i])]
    /\ UNCHANGED <<parsed, pending, addr, pc, line, sym, result, again>>

Decode ==
    /\ pc = "text"
    /\ result' = UsStateCode_from_str(input)
    /\ pc' = "decoded"
    /\ UNCHANGED <<parsed, pending, addr, line, sym, input, again>>

NextCodec == Encode \/ Supply \/ Recase \/ Decode

SpecCodec == InitCodec /\ [][NextCodec]_vars

(***************************************************************************)
(* Country::from_string, called directly, and called again on its result.  *)
(***************************************************************************)
CountryChars == {"u", "s", "U", "S", "7", "-", "e_acute", "dotless_i", "sharp_s", "euro"}

CountryInputs ==
    StringsUpTo(CountryChars, MaxCountryLen)
    \cup {<<"U", "S", "A", "7">>, <<"C", "a", "n", "a", "d", "a">>}

InitCountry ==
    /\ NoConversion
    /\ pc = "country"
    /\ sym = None
    /\ input \in CountryInputs
    /\ result = None
    /\ again = None

FromString ==
    /\ pc = "country"
    /\ result' = Some(Country_from_string(input))
    /\ pc' = "classified"
    /\ UNCHANGED <<parsed, pending, addr, line, sym, input, again>>

\* the text a Country holds is classified again
Reclassify ==
    /\ pc = "classified"
    /\ again' = Some(Country_from_string(Country_as_str(result.val)))
    /\ pc' = "reclassified"
    /\ UNCHANGED <<parsed, pending, addr, line, sym, input, result>>

NextCountry == FromString \/ Reclassify

SpecCountry == InitCountry /\ [][NextCountry]_vars

(***************************************************************************)
(* Postcode::new, then as_str and Display on the Postcode it returns.      *)
(***************************************************************************)
PostcodeChars == {" ", "nbsp", "7", "-", "a", "A"}

PostcodeInputs == StringsUpTo(PostcodeChars, MaxPostcodeLen)

InitPostcode ==
    /\ NoConversion
    /\ pc = "postcode"
    /\ sym = None
    /\ input \in PostcodeInputs
    /\ result = None
    /\ again = None

New ==
    /\ pc = "postcode"
    /\ result' = Postcode_new(input)
    /\ pc' = "built"
    /\ UNCHANGED <<parsed, pending, addr, line, sym, input, again>>

Read ==
    /\ pc = "built"
    /\ result # None
    /\ again' = Some([as_str |-> Postcode_as_str(result.val),
                      display |-> Postcode_fmt(result.val)])
    /\ pc' = "read"
    /\ UNCHANGED <<parsed, pending, addr, line, sym, input, result>>

NextPostcode == New \/ Read

SpecPostcode == InitPostcode /\ [][NextPostcode]_vars

(***************************************************************************)
(* Definitions the properties are stated with.                             *)
(***************************************************************************)
RECURSIVE from_parsed_over(_, _, _)
\* the for loop over the entries D of m, taken in one fixed order
from_parsed_over(m, D, a) ==
    IF D = {} THEN a
    ELSE LET key == CHOOSE k \in D : TRUE
         IN  from_parsed_over(m, D \ {key}, Dispatch(a, key, m[key]))

\* Address::from_parsed as a function of the mapping
from_parsed(m) == from_parsed_over(m, DOMAIN m, Address_default)

\* the mapping m without the entries whose key is outside D
Restrict(m, D) == [k \in DOMAIN m \cap D |-> m[k]]

IsText(s) == s \in Seq(Char)

IsState(st) ==
    \/ st.tag = "UsStateCode" /\ st.code \in UsStateCode
    \/ st.tag \in {"CanadianProvince", "Other"} /\ IsText(st.s)

IsCountry(c) == c.tag \in {"Iso2", "Iso3", "Name"} /\ IsText(c.s)

\* a is a value of the struct Address
IsAddress(a) ==
    /\ DOMAIN a = Fields
    /\ \A f \in PlainFields : a[f] = None \/ (a[f].tag = "Some" /\ IsText(a[f].val))
    /\ \/ a["postcode"] = None
       \/ /\ a["postcode"].tag = "Some"
          /\ a["postcode"].val.tag = "Postcode"
          /\ IsText(a["postcode"].val.s)
    /\ a["state"] = None \/ (a["state"].tag = "Some" /\ IsState(a["state"].val))
    /\ a["country"] = None \/ (a["country"].tag = "Some" /\ IsCountry(a["country"].val))

\* the two texts differ at most in the case of their ASCII letters
eq_ignore_ascii_case(s, t) ==
    /\ Len(s) = Len(t)
    /\ \A i \in DOMAIN s : s[i] = t[i] \/ swap_case(s[i]) = t[i]

\* two ASCII letters
IsTwoLetters(s) == Len(s) = 2 /\ all_ascii_alphabetic(s)

\* the variants whose code is the text, letter case apart
TableMatches(s) ==
    {code \in UsStateCode : eq_ignore_ascii_case(s, UsStateCode_as_str(code))}

\* every character of the text is white space (the empty text included)
IsBlank(s) == \A i \in DOMAIN s : is_whitespace(s[i])

\* the components of the single line, in their order
RenderOrder == <<"house_number", "road", "unit", "city", "state", "postcode", "country">>

\* the token of a present component
Token(a, f) ==
    CASE f = "unit" -> <<"#">> \o a[f].val
      [] f = "state" -> State_fmt(a[f].val)
      [] f = "postcode" -> Postcode_fmt(a[f].val)
      [] f = "country" -> Country_fmt(a[f].val)
      [] OTHER -> a[f].val

RECURSIVE Rendered(_, _)
\* the single line of the first n components: a present component adds its
\* token, after one space when a present component precedes it
Rendered(a, n) ==
    IF n = 0 THEN <<>>
    ELSE LET f == RenderOrder[n]
             before == Rendered(a, n - 1)
         IN  IF a[f] = None THEN before
             ELSE IF \E j \in 1..(n - 1) : a[RenderOrder[j]] # None
                  THEN before \o <<" ">> \o Token(a, f)
                  ELSE Token(a, f)

\* the text neither starts nor ends with a space, nor holds two in a row
NoStraySpace(s) ==
    /\ s # <<>> => s[1] # " " /\ s[Len(s)] # " "
    /\ \A i \in 1..(Len(s) - 1) : ~(s[i] = " " /\ s[i + 1] = " ")

(***************************************************************************)
(* The properties.                                                         *)
(***************************************************************************)

\* C1: from_parsed is total.  Whatever the mapping (empty, with unknown keys,
\* with a state text that UsStateCode::from_str rejects), addr is a value of
\* Address at every point, the loop comes to its end and addr is returned;
\* for the empty mapping every field of the Address returned is None.
C1_FromParsedTotal ==
    /\ [](IsAddress(addr))
    /\ []((pc # "iter" /\ DOMAIN parsed = {}) =>
            \A f \in Fields : addr[f] = None)
    /\ <>(pc # "iter")

\* C1 witness: from_parsed has returned for a mapping that holds an unknown
\* key and a state text that from_str rejects.
C1_Witness ==
    /\ pc = "done"
    /\ "state" \in DOMAIN parsed
    /\ UsStateCode_from_str(parsed["state"]) = Err
    /\ DOMAIN parsed \cap UnknownKeys # {}

\* C2: the "state" arm of from_parsed partitions its inputs.  A text of two
\* letters becomes UsStateCode with the matching symbol if, letter case
\* apart, it is one of the 51 codes, and CanadianProvince with the text in
\* upper case otherwise; any text that is not two letters becomes Other with
\* the text as it is.
C2_StatePartition ==
    (pc # "iter" /\ DOMAIN parsed = {"state"}) =>
        LET v == parsed["state"]
        IN  addr["state"] =
                IF IsTwoLetters(v)
                THEN IF TableMatches(v) # {}
                     THEN Some(State_UsStateCode(CHOOSE c \in TableMatches(v) : TRUE))
                     ELSE Some(State_CanadianProvince(to_uppercase(v)))
                ELSE Some(State_Other(v))

\* C3: Country::from_string classifies by the number of characters and their
\* class: two characters give Iso2 with the text in upper case, three
\* characters that are all ASCII capitals or digits give Iso3 with the text
\* in upper case, any other text gives Name with the text as it is.
C3_CountryByCharacters ==
    pc \in {"classified", "reclassified"} =>
        result =
            IF Len(input) = 2
            THEN Some(Country_Iso2(to_uppercase(input)))
            ELSE IF Len(input) = 3 /\ all_ascii_upper_or_digit(input)
                 THEN Some(Country_Iso3(to_uppercase(input)))
                 ELSE Some(Country_Name(input))

\* C4: Postcode::new returns None exactly when the text is empty or all white
\* space; otherwise as_str and Display of the Postcode it returns are the
\* text given, with its leading, trailing and inner white space.
C4_PostcodeNew ==
    /\ pc \in {"built", "read"} => (result = None <=> IsBlank(input))
    /\ pc = "read" => again = Some([as_str |-> input, display |-> input])

\* C4 witness: a Postcode built from a text with white space at both ends has
\* been read back.
C4_Witness ==
    /\ pc = "read"
    /\ Len(input) = 3
    /\ input[1] = " "
    /\ ~is_whitespace(input[2])
    /\ input[3] = "nbsp"

C6_CodecRoundTrip ==
    /\ pc = "codec" =>
        /\ Cardinality(UsStateCode) = 51
        /\ Cardinality({UsStateCode_as_str(code) : code \in UsStateCode}) = 51
    /\ (pc = "decoded" /\ sym # None) => result = Ok(sym.val)
    /\ (pc = "decoded" /\ sym = None /\ IsTwoLetters(input)
            /\ TableMatches(input) = {})
        => result = Err

\* C6 witness: a symbol was encoded, its text put in mixed case, and decoded.
C6_Witness ==
    /\ pc = "decoded"
    /\ sym = Some("NY")
    /\ input = <<"n", "Y">>

\* C7: keys are matched exactly against the vocabulary.  The Address returned
\* is the one returned for the mapping without its unrecognized entries; it
\* has every field None when no key is recognized, and "City" does not set
\* city.
C7_UnknownKeysIgnored ==
    pc # "iter" =>
        /\ addr = from_parsed(Restrict(parsed, Vocabulary))
        /\ DOMAIN parsed \cap Vocabulary = {} => addr = Address_default
        /\ "city" \notin DOMAIN parsed => addr["city"] = None

\* C7 witness: from_parsed has returned for a mapping with the key "City" and
\* a key of the vocabulary.
C7_Witness ==
    /\ pc = "done"
    /\ "City" \in DOMAIN parsed
    /\ DOMAIN parsed \cap Vocabulary # {}

\* C8: at every point of the loop, the field of a plain-text key is Some of
\* the raw value, unchanged, if the entry of that key has been taken, and
\* None otherwise (a key that is not in the mapping is never taken); a typed
\* field is None as long as the entry of its own key has not been taken.
C8_PlainFieldsCopied ==
    pc \in {"iter", "done", "rendered"} =>
        /\ \A k \in PlainFields :
            addr[k] = IF k \in DOMAIN parsed \ pending
                      THEN Some(parsed[k])
                      ELSE None
        /\ \A k \in TypedFields :
            addr[k] # None => k \in DOMAIN parsed \ pending

\* C8 witness: from_parsed has returned for a mapping that gives one plain
\* key the empty text and another a text with outer and inner spaces.
C8_Witness ==
    /\ pc = "done"
    /\ \E k1, k2 \in PlainFields \cap DOMAIN parsed :
        /\ parsed[k1] = <<>>
        /\ parsed[k2] = <<" ", "a", " ", "B">>

\* C9: classifying again the text of a Country that is Iso2 or Iso3 gives the
\* same variant with the same text.
C9_CountryIdempotent ==
    (pc = "reclassified" /\ result.val.tag \in {"Iso2", "Iso3"}) =>
        again = result

\* C10: the order in which the loop takes the entries does not matter.  At
\* every point of the loop, whatever the order so far, addr is what the
\* entries taken give in one fixed order; so it is at the end.
C10_OrderIrrelevant ==
    pc \in {"iter", "done", "rendered"} =>
        addr = from_parsed(Restrict(parsed, DOMAIN parsed \ pending))

\* C10 witness: of two recognized entries, the loop has taken first the one
\* the fixed order takes last.
C10_Witness ==
    /\ pc = "iter"
    /\ Cardinality(DOMAIN parsed) = 2
    /\ DOMAIN parsed \subseteq Vocabulary
    /\ pending = {CHOOSE k \in DOMAIN parsed : TRUE}

====
